---------------------------- MODULE Spec2Model ----------------------------
(***************************************************************************)
(* A model of the item stores of src/ui: ListModel, TableModel and         *)
(* TreeModel (src/ui/model.py) over Item / TreeItem (src/ui/item.py).      *)
(*                                                                         *)
(* One store object exists per behaviour (variable store says which class  *)
(* was constructed).  Every public operation is one action: it runs the    *)
(* whole method, including the error it may end with.  result holds what   *)
(* the call returned ("True", "False", "None") or the exception it raised, *)
(* notes the begin/end notifications it emitted, last the method called.   *)
(***************************************************************************)
EXTENDS Integers, Sequences, FiniteSets, TLC

(***************************************************************************)
(* Bounds of the model.                                                    *)
(***************************************************************************)
MaxItems == 3       \* distinct Item / TreeItem objects the caller holds
MaxTreeItems == 2   \* TreeItem objects handed to a TreeModel that is also
                    \* asked to delete, move and re-insert them
MaxLen == 3         \* longest list of items explored, and the most places
                    \* the children lists of a tree hold in all
MaxBatch == 2       \* longest batch handed to a *_items call
MaxCols == 3        \* largest COL_COUNT a TableModel is configured with
MaxTableItems == 2  \* distinct Item objects stored in a TableModel
MaxTableLen == 5    \* longest TableModel.__items explored
MaxClears == 1      \* clear() calls explored on a TreeModel
MaxPos == 8         \* |pos| and len_ range of the _get_abs_pos check

ItemNames == <<"A", "B", "C", "D", "E", "F">>
TreeItemNames == <<"X", "Y", "Z", "W", "V", "U">>
RootNames == <<"R", "R1", "R2", "R3">>

Items == {ItemNames[i] : i \in 1..MaxItems}
TableItems == {ItemNames[i] : i \in 1..MaxTableItems}
TreeItems == {TreeItemNames[i] : i \in 1..MaxItems}
SomeTreeItems == {TreeItemNames[i] : i \in 1..MaxTreeItems} \cap TreeItems
Roots == {RootNames[i] : i \in 1..(MaxClears + 1)}
TreeNodes == Roots \cup TreeItems

None == "None"

\* Values handed around as a parent argument: a QModelIndex (row, column 0,
\* internalPointer), Python's None, or the class QModelIndex itself.
createIndex(row, ptr) == [py |-> "QModelIndex", row |-> row, ptr |-> ptr]
InvalidIndex == [py |-> "QModelIndex", row |-> -1, ptr |-> None]
NoneArg == [py |-> "NoneType", row |-> -1, ptr |-> None]
IndexClass == [py |-> "type", row |-> -1, ptr |-> None]
isValid(idx) == idx.py = "QModelIndex" /\ idx.row >= 0

\* The handles ListModel.index and TableModel.index return:
\* createIndex(row, column, ptr), and QModelIndex().
createIndexAt(row, column, ptr) ==
    [py |-> "QModelIndex", row |-> row, column |-> column, ptr |-> ptr]
InvalidHandle == createIndexAt(-1, -1, None)

VARIABLES store,        \* which class was constructed, or "helper"
          list_items,   \* ListModel.__items
          table_items,  \* TableModel.__items
          COL_COUNT,    \* TableModel.COL_COUNT
          strict_emit,  \* the Qt binding type-checks dataChanged.emit
          root_item,    \* TreeModel.root_item
          children,     \* TreeItem.__children of every tree item
          parent,       \* TreeItem.__parent of every tree item
          result,       \* what the last call returned or raised
          notes,        \* the notifications the last call emitted
          yielded,      \* the items the last call produced, if it iterated
          iter_recursive, \* the recursive flag of that iteration
          handle,       \* the index the last call returned, if it was a lookup
          last,         \* the method called last
          abs_pos, abs_len, abs_out   \* a call of _get_abs_pos

vars == <<store, list_items, table_items, COL_COUNT, strict_emit, root_item,
          children, parent, result, notes, yielded, iter_recursive,
          handle, last,
          abs_pos, abs_len, abs_out>>

listVars == <<list_items>>
tableVars == <<table_items, COL_COUNT, strict_emit>>
treeVars == <<root_item, children, parent>>
iterVars == <<yielded, iter_recursive, handle>>
posVars == <<abs_pos, abs_len, abs_out>>

(***************************************************************************)
(* Python built-ins the stores rely on.                                    *)
(***************************************************************************)
Min(a, b) == IF a <= b THEN a ELSE b

\* list.insert(i, x): a negative i counts from the end, and i is clipped
\* into [0, len].
PyInsert(s, i, x) ==
    LET n == Len(s)
        j == IF i < 0 THEN (IF i + n < 0 THEN 0 ELSE i + n)
             ELSE Min(i, n)
    IN  SubSeq(s, 1, j) \o <<x>> \o SubSeq(s, j + 1, n)

\* del s[i] / s.pop(i) for 0 <= i < len(s).
PyDelAt(s, i) == SubSeq(s, 1, i) \o SubSeq(s, i + 2, Len(s))

\* del s[a:b] for 0 <= a: the slice is clipped to the list.
PyDelSlice(s, a, b) ==
    LET n == Len(s)
        lo == Min(a, n)
        hi == IF b < lo THEN lo ELSE Min(b, n)
    IN  SubSeq(s, 1, lo) \o SubSeq(s, hi + 1, n)

PyIn(s, x) == \E i \in 1..Len(s) : s[i] = x

\* list.index(x), 0-based, for x in s (the callers raise ValueError first).
PyIndex(s, x) == (CHOOSE i \in 1..Len(s) :
                     s[i] = x /\ \A j \in 1..(i - 1) : s[j] # x) - 1

\* list.remove(x) for x in s: the first occurrence goes.
PyRemove(s, x) == PyDelAt(s, PyIndex(s, x))

RECURSIVE BitAndNat(_, _)
BitAndNat(a, b) ==
    IF a = 0 \/ b = 0 THEN 0
    ELSE (IF a % 2 = 1 /\ b % 2 = 1 THEN 1 ELSE 0)
         + 2 * BitAndNat(a \div 2, b \div 2)

RECURSIVE BitOrNat(_, _)
BitOrNat(a, b) ==
    IF a = 0 THEN b
    ELSE IF b = 0 THEN a
    ELSE (IF a % 2 = 1 \/ b % 2 = 1 THEN 1 ELSE 0)
         + 2 * BitOrNat(a \div 2, b \div 2)

\* Python's a | b on unbounded two's complement integers: ~x = -x - 1 and
\* a | b = ~(~a & ~b).
BitOr(a, b) ==
    IF a >= 0 /\ b >= 0 THEN BitOrNat(a, b)
    ELSE IF a < 0 /\ b < 0 THEN -BitAndNat(-a - 1, -b - 1) - 1
    ELSE LET neg == IF a < 0 THEN a ELSE b
             pos == IF a < 0 THEN b ELSE a
             nn == -neg - 1
         IN  -(nn - BitAndNat(nn, pos)) - 1

\* math.ceil(a / b) for a >= 0, b > 0.
Ceil(a, b) == IF a % b = 0 THEN a \div b ELSE (a \div b) + 1

\* math.floor(a / b) for b > 0.
Floor(a, b) == a \div b

\* sorted(items, key=position, reverse=True) for distinct items with
\* distinct positions: the items by descending position in s.
RECURSIVE SortedDesc(_, _)
SortedDesc(S, s) ==
    IF S = {} THEN <<>>
    ELSE LET m == CHOOSE x \in S :
                     \A y \in S : PyIndex(s, y) <= PyIndex(s, x)
         IN  <<m>> \o SortedDesc(S \ {m}, s)

(***************************************************************************)
(* _get_abs_pos                                                            *)
(***************************************************************************)
\* _get_abs_pos without the + 1 of line 964.
_get_abs_pos_no_shift(pos, len_) == IF pos >= 0 THEN pos ELSE len_ + pos

_get_abs_pos(pos, len_) == IF pos >= 0 THEN pos ELSE len_ + pos + 1

(***************************************************************************)
(* Notifications (the begin/end calls of QAbstractItemModel).              *)
(***************************************************************************)
BeginInsertRows(p, first, lst) ==
    [ev |-> "insert-begin", parent |-> p, first |-> first, last |-> lst]
EndInsertRows == [ev |-> "insert-end"]
BeginRemoveRows(p, first, lst) ==
    [ev |-> "remove-begin", parent |-> p, first |-> first, last |-> lst]
EndRemoveRows == [ev |-> "remove-end"]
BeginMoveRows(sp, first, lst, dp, dst) ==
    [ev |-> "move-begin", parent |-> sp, first |-> first, last |-> lst,
     dst_parent |-> dp, dst |-> dst]
EndMoveRows == [ev |-> "move-end"]
BeginResetModel == [ev |-> "reset-begin"]
EndResetModel == [ev |-> "reset-end"]
DataChanged(a, b) == [ev |-> "dataChanged", first |-> a, last |-> b]

\* What a call ends with: the store's contents, what it returned or
\* raised, and the notifications it emitted.
Outcome(its, res, nts) == [items |-> its, result |-> res, notes |-> nts]


(***************************************************************************)
(* ListModel                                                               *)
(***************************************************************************)
ListModel_rowCount(its) == Len(its)

\* index(row, column): [handle, err].  The guard of line 59 lets
\* row = rowCount() through to self.__items[row].
ListModel_index(its, row, column) ==
    IF 0 <= row /\ row <= ListModel_rowCount(its)
    THEN IF row < Len(its)
         THEN [handle |-> createIndexAt(row, column, its[row + 1]),
               err |-> None]
         ELSE [handle |-> InvalidHandle, err |-> "IndexError"]
    ELSE [handle |-> InvalidHandle, err |-> None]

\* insertRow with row < rowCount() for the row <= rowCount() of line 89.
ListModel_insertRow_no_append(its, row, item) ==
    IF ~(0 <= row /\ row < ListModel_rowCount(its))
    THEN Outcome(its, "False", <<>>)
    ELSE Outcome(PyInsert(its, row, item), "True",
                 <<BeginInsertRows(InvalidIndex, row, row), EndInsertRows>>)

ListModel_insertRow(its, row, item) ==
    IF ~(0 <= row /\ row <= ListModel_rowCount(its))
    THEN Outcome(its, "False", <<>>)
    ELSE Outcome(PyInsert(its, row, item), "True",
                 <<BeginInsertRows(InvalidIndex, row, row), EndInsertRows>>)

RECURSIVE ListModel_insertRows_loop(_, _, _, _)
ListModel_insertRows_loop(its, row, new, i) ==
    IF i > Len(new) THEN its
    ELSE ListModel_insertRows_loop(PyInsert(its, row + i - 1, new[i]), row, new, i + 1)

\* insertRows with row < rowCount() for the row <= rowCount() of line 106.
ListModel_insertRows_no_append(its, row, count, new) ==
    IF ~(0 <= row /\ row < ListModel_rowCount(its))
    THEN Outcome(its, "False", <<>>)
    ELSE IF new # <<>> /\ Len(new) # count
    THEN Outcome(its, "False", <<>>)
    ELSE Outcome(ListModel_insertRows_loop(its, row, new, 1), "True",
                 <<BeginInsertRows(InvalidIndex, row, row + count - 1),
                   EndInsertRows>>)

ListModel_insertRows(its, row, count, new) ==
    IF ~(0 <= row /\ row <= ListModel_rowCount(its))
    THEN Outcome(its, "False", <<>>)
    ELSE IF new # <<>> /\ Len(new) # count
    THEN Outcome(its, "False", <<>>)
    ELSE Outcome(ListModel_insertRows_loop(its, row, new, 1), "True",
                 <<BeginInsertRows(InvalidIndex, row, row + count - 1),
                   EndInsertRows>>)

\* removeRow's default parent is the class QModelIndex, not an index
\* (line 124): beginRemoveRows rejects it with a TypeError.
ListModel_removeRow(its, row, p) ==
    LET par == IF p = NoneArg THEN IndexClass ELSE p
    IN  IF ~(0 <= row /\ row < ListModel_rowCount(its))
        THEN Outcome(its, "False", <<>>)
        ELSE IF par.py # "QModelIndex"
        THEN Outcome(its, "TypeError", <<>>)
        ELSE Outcome(PyDelAt(its, row), "True",
                     <<BeginRemoveRows(par, row, row), EndRemoveRows>>)

\* 0 <= src_row | dst_row < self.rowCount()
ListModel_moveRow_guard(its, src_row, dst_row) ==
    /\ 0 <= BitOr(src_row, dst_row)
    /\ BitOr(src_row, dst_row) < ListModel_rowCount(its)

ListModel_moveRow(its, src_row, dst_row) ==
    IF ~ListModel_moveRow_guard(its, src_row, dst_row)
    THEN Outcome(its, "False", <<>>)
    ELSE Outcome(PyInsert(PyDelAt(its, src_row), dst_row, its[src_row + 1]),
                 "True",
                 <<BeginMoveRows(InvalidIndex, src_row, src_row,
                                 InvalidIndex, dst_row),
                   EndMoveRows>>)

ListModel_insert_item(its, item, pos) ==
    ListModel_insertRow(its, _get_abs_pos(pos, ListModel_rowCount(its)), item)

ListModel_insert_items(its, new, pos) ==
    ListModel_insertRows(its, _get_abs_pos(pos, ListModel_rowCount(its)), Len(new), new)

ListModel_delete_item(its, item) ==
    IF ~PyIn(its, item) THEN Outcome(its, "ValueError", <<>>)
    ELSE ListModel_removeRow(its, PyIndex(its, item), NoneArg)

\* delete_items: the sort evaluates every key first; then the items are
\* deleted one by one, and the first error ends the call.
RECURSIVE ListModel_delete_items_loop(_, _, _)
ListModel_delete_items_loop(o, order, i) ==
    IF i > Len(order) THEN Outcome(o.items, "None", o.notes)
    ELSE IF ~PyIn(o.items, order[i])
    THEN Outcome(o.items, "ValueError", o.notes)
    ELSE LET r == ListModel_removeRow(o.items, PyIndex(o.items, order[i]),
                                          NoneArg)
         IN  IF r.result \notin {"True", "False"}
             THEN Outcome(r.items, r.result, o.notes \o r.notes)
             ELSE ListModel_delete_items_loop(Outcome(r.items, "None", o.notes \o r.notes),
                                 order, i + 1)

ListModel_delete_items(its, S) ==
    IF \E x \in S : ~PyIn(its, x) THEN Outcome(its, "ValueError", <<>>)
    ELSE ListModel_delete_items_loop(Outcome(its, "None", <<>>), SortedDesc(S, its), 1)

ListModel_move_item(its, item, pos) ==
    IF ~PyIn(its, item) THEN Outcome(its, "ValueError", <<>>)
    ELSE ListModel_moveRow(its, PyIndex(its, item),
                     _get_abs_pos(pos, ListModel_rowCount(its)))

RECURSIVE ListModel_move_items_loop(_, _, _, _)
ListModel_move_items_loop(o, order, pos, i) ==
    IF i > Len(order) THEN Outcome(o.items, "None", o.notes)
    ELSE IF ~PyIn(o.items, order[i])
    THEN Outcome(o.items, "ValueError", o.notes)
    ELSE LET r == ListModel_moveRow(o.items, PyIndex(o.items, order[i]),
                              pos + i - 1)
         IN  ListModel_move_items_loop(Outcome(r.items, "None", o.notes \o r.notes),
                          order, pos, i + 1)

ListModel_move_items_order(S, its) == SortedDesc(S, its)

ListModel_move_items(its, S, pos) ==
    IF \E x \in S : ~PyIn(its, x) THEN Outcome(its, "ValueError", <<>>)
    ELSE ListModel_move_items_loop(Outcome(its, "None", <<>>), ListModel_move_items_order(S, its),
                      _get_abs_pos(pos, ListModel_rowCount(its)), 1)

ListModel_clear(its) == Outcome(<<>>, "None", <<BeginResetModel, EndResetModel>>)


(***************************************************************************)
(* TableModel.  C is COL_COUNT.  strict says whether the Qt binding checks *)
(* the argument types of dataChanged.emit (PyQt: TypeError on the two      *)
(* integers of lines 203 and 212) or converts them unchecked (PySide).     *)
(***************************************************************************)
\* rowCount with math.floor for the math.ceil of line 271.
TableModel_rowCount_floor(its, C) == Floor(Len(its), C)

TableModel_rowCount(its, C) == Ceil(Len(its), C)

\* index(row, column): the cell is checked against rowCount(), not
\* against the number of items (line 238).
TableModel_index(its, C, row, column) ==
    LET pos == C * row + column
    IN  IF /\ 0 <= row /\ row < TableModel_rowCount(its, C)
           /\ 0 <= column /\ column < C
           /\ pos < TableModel_rowCount(its, C)
        THEN createIndexAt(row, column, its[pos + 1])
        ELSE InvalidHandle

\* The loop of iter_indices from i on, row and column being the values the
\* previous pass left: the valid indices it yields.
RECURSIVE TableModel_iter_indices_loop(_, _, _, _, _)
TableModel_iter_indices_loop(its, C, i, row, column) ==
    IF i >= TableModel_rowCount(its, C) THEN <<>>
    ELSE LET row1 == IF i % C = 0 THEN row + 1 ELSE row
             column1 == IF i % C = 0 THEN 0 ELSE column + 1
             index == TableModel_index(its, C, row1, column1)
         IN  (IF isValid(index) THEN <<index>> ELSE <<>>)
             \o TableModel_iter_indices_loop(its, C, i + 1, row1, column1)

TableModel_iter_indices(its, C) ==
    TableModel_iter_indices_loop(its, C, 0, -1, 0)

TableModel_insertRow(its, C, row, item) ==
    IF ~(0 <= row /\ row <= TableModel_rowCount(its, C))
    THEN Outcome(its, "False", <<>>)
    ELSE Outcome(IF item # None THEN PyInsert(its, row * C, item) ELSE its,
                 "True",
                 <<BeginInsertRows(InvalidIndex, row, row), EndInsertRows>>)

RECURSIVE TableModel_insertRows_loop(_, _, _, _)
TableModel_insertRows_loop(its, pos, new, i) ==
    IF i > Len(new) THEN its
    ELSE TableModel_insertRows_loop(PyInsert(its, pos + i - 1, new[i]),
                                    pos, new, i + 1)

TableModel_insertRows(its, C, row, count, new) ==
    LET end_row == row + count - 1
    IN  IF ~(0 <= row /\ row < end_row
             /\ end_row <= TableModel_rowCount(its, C))
        THEN Outcome(its, "False", <<>>)
        ELSE Outcome(TableModel_insertRows_loop(its, row * C, new, 1), "True",
                     <<BeginInsertRows(InvalidIndex, row, end_row),
                       EndInsertRows>>)

TableModel_removeRow(its, C, row) ==
    IF ~(0 < row /\ row < TableModel_rowCount(its, C))
    THEN Outcome(its, "False", <<>>)
    ELSE LET pos == row * C
             end_pos == Min(pos + C, TableModel_rowCount(its, C))
         IN  Outcome(PyDelSlice(its, pos, end_pos), "True",
                     <<BeginRemoveRows(InvalidIndex, row, row),
                       EndRemoveRows>>)

\* removeRows(row, count): the slice is cut at rowCount(), as in removeRow.
TableModel_removeRows(its, C, row, count) ==
    LET end_row == row + count - 1
    IN  IF ~(0 <= row /\ row < end_row
             /\ end_row <= TableModel_rowCount(its, C))
        THEN Outcome(its, "False", <<>>)
        ELSE LET pos == row * C
                 end_pos == Min(pos + count * C, TableModel_rowCount(its, C))
             IN  Outcome(PyDelSlice(its, pos, end_pos), "True",
                         <<BeginRemoveRows(InvalidIndex, row, end_row),
                           EndRemoveRows>>)

\* The value of the call is dropped: insert_item returns None whatever
\* insertRow answered.
TableModel_insert_item(its, C, item, pos, strict) ==
    LET apos == _get_abs_pos(pos, TableModel_rowCount(its, C))
        column == TableModel_rowCount(its, C) % C
    IN  IF column = 0
        THEN LET r == TableModel_insertRow(
                          its, C, TableModel_rowCount(its, C) - 1, item)
             IN  Outcome(r.items, "None", r.notes)
        ELSE LET new == PyInsert(its, apos, item)
             IN  IF strict THEN Outcome(new, "TypeError", <<>>)
                 ELSE Outcome(new, "None",
                              <<DataChanged(TableModel_rowCount(new, C),
                                            column)>>)

\* The loop of lines 210-213: st = [items, rest, pos, notes], rest being
\* what is left of the caller's list.
RECURSIVE TableModel_insert_items_fill(_, _, _, _, _, _)
TableModel_insert_items_fill(st, C, column, i, n, strict) ==
    IF i >= n THEN st @@ [result |-> "None"]
    ELSE IF st.rest = <<>> THEN st @@ [result |-> "IndexError"]
    ELSE LET new == PyInsert(st.items, st.pos + i, Head(st.rest))
         IN  IF strict
             THEN [items |-> new, rest |-> Tail(st.rest), pos |-> st.pos,
                   notes |-> st.notes, result |-> "TypeError"]
             ELSE TableModel_insert_items_fill(
                      [items |-> new, rest |-> Tail(st.rest),
                       pos |-> st.pos + 1,
                       notes |-> Append(st.notes,
                           DataChanged(TableModel_rowCount(new, C), column))],
                      C, column, i + 1, n, strict)

TableModel_insert_items(its, C, new, pos, strict) ==
    LET apos == _get_abs_pos(pos, TableModel_rowCount(its, C))
        column == TableModel_rowCount(its, C) % C
        st0 == [items |-> its, rest |-> new, pos |-> apos, notes |-> <<>>]
        st == IF column # 0
              THEN TableModel_insert_items_fill(st0, C, column, 0,
                                                C - column, strict)
              ELSE st0 @@ [result |-> "None"]
    IN  IF st.result # "None" THEN Outcome(st.items, st.result, st.notes)
        ELSE IF st.rest = <<>> THEN Outcome(st.items, "None", st.notes)
        ELSE LET row == Floor(st.pos, C)
                 row_count ==
                     Ceil(Len(st.rest) + TableModel_rowCount(st.items, C), C)
                     - TableModel_rowCount(st.items, C)
                 r == TableModel_insertRows(st.items, C, row, row_count,
                                            st.rest)
             IN  Outcome(r.items, "None", st.notes \o r.notes)

TableModel_clear(its) ==
    Outcome(<<>>, "None", <<BeginResetModel, EndResetModel>>)


(***************************************************************************)
(* TreeItem.  t = [children, parent] holds the fields of every TreeItem.   *)
(* A method returns [t, err]: the fields afterwards and the exception it   *)
(* raised (None when it returned).                                         *)
(***************************************************************************)
RECURSIVE TreeItem_set_parent(_, _, _)
RECURSIVE TreeItem_remove_child(_, _, _)

\* The parent setter (lines 87-93): an item that has a parent asks it to
\* remove the item, and remove_child assigns child.parent = None, which
\* comes back here with __parent still set.
TreeItem_set_parent(t, x, p) ==
    IF t.parent[x] # None
    THEN LET r == TreeItem_remove_child(t, t.parent[x], x)
         IN  IF r.err # None THEN r
             ELSE [t |-> [r.t EXCEPT !.parent[x] = p], err |-> None]
    ELSE [t |-> [t EXCEPT !.parent[x] = p], err |-> None]

TreeItem_remove_child(t, n, c) ==
    IF ~PyIn(t.children[n], c) THEN [t |-> t, err |-> "ValueError"]
    ELSE TreeItem_set_parent(
             [t EXCEPT !.children[n] = PyRemove(t.children[n], c)], c, None)

TreeItem_insert_child(t, n, c, pos) ==
    TreeItem_set_parent(
        [t EXCEPT !.children[n] = PyInsert(t.children[n], pos, c)], c, n)

TreeItem_child_count(t, n) == Len(t.children[n])

\* Generators are lazy: a consumer sees the items of seq in order and, when
\* overflow holds, a RecursionError after the last of them.  Python gives
\* up at depth 1000; a depth beyond RecursionDepth already means that the
\* walk is inside a cycle and will never leave it.
RecursionDepth == 2 * Cardinality(TreeItems) + 1

\* iter_children with the yield of line 48 after the recursion of line 51.
RECURSIVE TreeItem_iter_children_post(_, _, _, _, _)
TreeItem_iter_children_post(t, n, recursive, from, fuel) ==
    IF from > Len(t.children[n]) THEN [seq |-> <<>>, overflow |-> FALSE]
    ELSE LET child == t.children[n][from]
             sub == IF recursive /\ t.children[child] # <<>>
                    THEN IF fuel = 0
                         THEN [seq |-> <<>>, overflow |-> TRUE]
                         ELSE TreeItem_iter_children_post(t, child, recursive,
                                                          1, fuel - 1)
                    ELSE [seq |-> <<>>, overflow |-> FALSE]
         IN  IF sub.overflow
             THEN [seq |-> sub.seq, overflow |-> TRUE]
             ELSE LET rest == TreeItem_iter_children_post(t, n, recursive,
                                                          from + 1, fuel)
                  IN  [seq |-> sub.seq \o <<child>> \o rest.seq,
                       overflow |-> rest.overflow]

RECURSIVE TreeItem_iter_children(_, _, _, _, _)
TreeItem_iter_children(t, n, recursive, from, fuel) ==
    IF from > Len(t.children[n]) THEN [seq |-> <<>>, overflow |-> FALSE]
    ELSE LET child == t.children[n][from]
             sub == IF recursive /\ t.children[child] # <<>>
                    THEN IF fuel = 0
                         THEN [seq |-> <<>>, overflow |-> TRUE]
                         ELSE TreeItem_iter_children(t, child, recursive,
                                                     1, fuel - 1)
                    ELSE [seq |-> <<>>, overflow |-> FALSE]
         IN  IF sub.overflow
             THEN [seq |-> <<child>> \o sub.seq, overflow |-> TRUE]
             ELSE LET rest == TreeItem_iter_children(t, n, recursive,
                                                     from + 1, fuel)
                  IN  [seq |-> <<child>> \o sub.seq \o rest.seq,
                       overflow |-> rest.overflow]

(***************************************************************************)
(* TreeModel.  root is root_item.                                          *)
(***************************************************************************)
TreeModel_item_of(root, idx) == IF isValid(idx) THEN idx.ptr ELSE root

TreeModel_rowCount(t, root, idx) ==
    TreeItem_child_count(t, TreeModel_item_of(root, idx))

\* index(row, 0, parent): hasIndex checks the row against rowCount(parent).
TreeModel_index(t, root, row, pidx) ==
    IF ~(0 <= row /\ row < TreeModel_rowCount(t, root, pidx))
    THEN InvalidIndex
    ELSE createIndex(row, t.children[TreeModel_item_of(root, pidx)][row + 1])

\* parent(index): [idx, err].  TreeItem has no method row(), so line 764
\* raises AttributeError.
TreeModel_parent(t, root, idx) ==
    IF ~isValid(idx) THEN [idx |-> InvalidIndex, err |-> None]
    ELSE LET parent_item == t.parent[idx.ptr]
         IN  IF parent_item = root \/ parent_item = None
             THEN [idx |-> InvalidIndex, err |-> None]
             ELSE [idx |-> InvalidIndex, err |-> "AttributeError"]

RECURSIVE TreeModel_iter_indices(_, _, _, _, _, _)
TreeModel_iter_indices(t, root, pidx, recursive, from, fuel) ==
    IF from >= TreeModel_rowCount(t, root, pidx)
    THEN [seq |-> <<>>, overflow |-> FALSE]
    ELSE LET index == TreeModel_index(t, root, from, pidx)
             sub == IF recursive
                    THEN IF TreeModel_rowCount(t, root, index) = 0
                         THEN [seq |-> <<>>, overflow |-> FALSE]
                         ELSE IF fuel = 0
                         THEN [seq |-> <<>>, overflow |-> TRUE]
                         ELSE TreeModel_iter_indices(t, root, index,
                                                     recursive, 0, fuel - 1)
                    ELSE [seq |-> <<>>, overflow |-> FALSE]
         IN  IF sub.overflow
             THEN [seq |-> <<index>> \o sub.seq, overflow |-> TRUE]
             ELSE LET rest == TreeModel_iter_indices(t, root, pidx,
                                                     recursive, from + 1,
                                                     fuel)
                  IN  [seq |-> <<index>> \o sub.seq \o rest.seq,
                       overflow |-> rest.overflow]

TreeModel_all_indices(t, root) ==
    TreeModel_iter_indices(t, root, InvalidIndex, TRUE, 0, RecursionDepth)

\* The search loops of insert_item, insert_items and delete_item: the first
\* index whose internalPointer is the item; err is "RecursionError" when
\* the walk overflows first, found is FALSE when it ends without a match.
TreeModel_find(t, root, item) ==
    LET it == TreeModel_all_indices(t, root)
        hits == {i \in 1..Len(it.seq) : it.seq[i].ptr = item}
    IN  IF hits # {}
        THEN [found |-> TRUE, err |-> None,
              idx |-> it.seq[CHOOSE i \in hits : \A j \in hits : i <= j]]
        ELSE [found |-> FALSE, idx |-> InvalidIndex,
              err |-> IF it.overflow THEN "RecursionError" ELSE None]

\* if parent is None: parent = qtc.QModelIndex()
AsIndex(pidx) == IF pidx = NoneArg THEN InvalidIndex ELSE pidx

TOutcome(t, res, nts) ==
    [children |-> t.children, parent |-> t.parent, result |-> res,
     notes |-> nts]

\* insertRow with row < child_count for the row <= child_count of line 814.
TreeModel_insertRow_no_append(t, root, row, pidx, item) ==
    LET parent_item == TreeModel_item_of(root, pidx)
    IN  IF ~(0 <= row /\ row < TreeItem_child_count(t, parent_item))
        THEN TOutcome(t, "False", <<>>)
        ELSE LET r == TreeItem_insert_child(t, parent_item, item, row)
                 begin == BeginInsertRows(AsIndex(pidx), row, row)
             IN  IF r.err # None THEN TOutcome(r.t, r.err, <<begin>>)
                 ELSE TOutcome(r.t, "True", <<begin, EndInsertRows>>)

TreeModel_insertRow(t, root, row, pidx, item) ==
    LET parent_item == TreeModel_item_of(root, pidx)
    IN  IF ~(0 <= row /\ row <= TreeItem_child_count(t, parent_item))
        THEN TOutcome(t, "False", <<>>)
        ELSE LET r == TreeItem_insert_child(t, parent_item, item, row)
                 begin == BeginInsertRows(AsIndex(pidx), row, row)
             IN  IF r.err # None THEN TOutcome(r.t, r.err, <<begin>>)
                 ELSE TOutcome(r.t, "True", <<begin, EndInsertRows>>)

\* The loop of lines 842-843: [t, err] after items[i..].
RECURSIVE TreeModel_insertRows_loop(_, _, _, _, _)
TreeModel_insertRows_loop(t, parent_item, row, new, i) ==
    IF i > Len(new) THEN [t |-> t, err |-> None]
    ELSE LET r == TreeItem_insert_child(t, parent_item, new[i], row + i - 1)
         IN  IF r.err # None THEN r
             ELSE TreeModel_insertRows_loop(r.t, parent_item, row, new, i + 1)

TreeModel_insertRows(t, root, row, count, pidx, new) ==
    LET parent_item == TreeModel_item_of(root, pidx)
    IN  IF ~(0 <= row /\ row < TreeItem_child_count(t, parent_item))
        THEN TOutcome(t, "False", <<>>)
        ELSE IF new # <<>> /\ Len(new) # count
        THEN TOutcome(t, "False", <<>>)
        ELSE LET r == TreeModel_insertRows_loop(t, parent_item, row, new, 1)
                 begin == BeginInsertRows(AsIndex(pidx), row, row + count - 1)
             IN  IF r.err # None THEN TOutcome(r.t, r.err, <<begin>>)
                 ELSE TOutcome(r.t, "True", <<begin, EndInsertRows>>)

TreeModel_removeRow(t, root, row, pidx) ==
    LET parent_item == TreeModel_item_of(root, pidx)
    IN  IF ~(0 <= row /\ row < TreeItem_child_count(t, parent_item))
        THEN TOutcome(t, "False", <<>>)
        ELSE LET r == TreeItem_remove_child(t, parent_item,
                                            t.children[parent_item][row + 1])
                 begin == BeginRemoveRows(AsIndex(pidx), row, row)
             IN  IF r.err # None THEN TOutcome(r.t, r.err, <<begin>>)
                 ELSE TOutcome(r.t, "True", <<begin, EndRemoveRows>>)

TreeModel_moveRow(t, root, src_row, dst_row, src_parent, dst_parent) ==
    LET src_item == TreeModel_item_of(root, src_parent)
        dst_item == TreeModel_item_of(root, dst_parent)
    IN  IF ~(0 <= src_row /\ src_row < TreeItem_child_count(t, src_item))
        THEN TOutcome(t, "False", <<>>)
        ELSE IF ~(0 <= dst_row /\ dst_row < TreeItem_child_count(t, dst_item))
        THEN TOutcome(t, "False", <<>>)
        ELSE LET item == t.children[src_item][src_row + 1]
                 r == TreeItem_insert_child(t, dst_item, item, dst_row)
                 begin == BeginMoveRows(src_parent, src_row, src_row,
                                        dst_parent, dst_row)
             IN  IF r.err # None THEN TOutcome(r.t, r.err, <<begin>>)
                 ELSE TOutcome(r.t, "True", <<begin, EndMoveRows>>)

\* What a call of the public method ends with: the value of the inner row
\* call is dropped (the method returns None), its exception is not.
Dropped(o) ==
    [o EXCEPT !.result = IF @ \in {"True", "False"} THEN "None" ELSE @]

\* parent_item is None for the default argument.
TreeModel_insert_item(t, root, item, parent_item, pos) ==
    IF parent_item = None
    THEN Dropped(TreeModel_insertRow(
             t, root, _get_abs_pos(pos, TreeItem_child_count(t, root)),
             NoneArg, item))
    ELSE LET f == TreeModel_find(t, root, parent_item)
         IN  IF f.err # None THEN TOutcome(t, f.err, <<>>)
             ELSE IF ~f.found THEN TOutcome(t, "ValueError", <<>>)
             ELSE Dropped(TreeModel_insertRow(
                      t, root,
                      _get_abs_pos(pos, TreeItem_child_count(t, parent_item)),
                      f.idx, item))

TreeModel_insert_items(t, root, new, parent_item, pos) ==
    IF parent_item = None
    THEN Dropped(TreeModel_insertRows(
             t, root, _get_abs_pos(pos, TreeItem_child_count(t, root)),
             Len(new), NoneArg, new))
    ELSE LET f == TreeModel_find(t, root, parent_item)
         IN  IF f.err # None THEN TOutcome(t, f.err, <<>>)
             ELSE IF ~f.found THEN TOutcome(t, "ValueError", <<>>)
             ELSE Dropped(TreeModel_insertRows(
                      t, root,
                      _get_abs_pos(pos, TreeItem_child_count(t, parent_item)),
                      Len(new), f.idx, new))

TreeModel_delete_item(t, root, item) ==
    LET f == TreeModel_find(t, root, item)
    IN  IF f.err # None THEN TOutcome(t, f.err, <<>>)
        ELSE IF ~f.found THEN TOutcome(t, "None", <<>>)
        ELSE LET p == TreeModel_parent(t, root, f.idx)
             IN  IF p.err # None THEN TOutcome(t, p.err, <<>>)
                 ELSE Dropped(TreeModel_removeRow(t, root, f.idx.row, p.idx))

\* The scan of lines 689-699 over seq[i..]: item_index and dst_parent_index
\* as found so far (InvalidIndex with have = FALSE for None), and index,
\* the loop variable.
RECURSIVE TreeModel_move_item_scan(_, _, _, _, _)
TreeModel_move_item_scan(it, item, dst, i, st) ==
    IF i > Len(it.seq)
    THEN [st EXCEPT !.err = IF it.overflow THEN "RecursionError"
                            ELSE "ValueError"]
    ELSE LET index == it.seq[i]
             st1 == IF index.ptr = item
                    THEN [st EXCEPT !.item_index = index, !.have_item = TRUE,
                                    !.index = index]
                    ELSE IF index.ptr = dst
                    THEN [st EXCEPT !.dst_parent_index = index,
                                    !.have_dst = TRUE, !.index = index]
                    ELSE [st EXCEPT !.index = index]
         IN  IF st1.have_item /\ st1.have_dst THEN st1
             ELSE TreeModel_move_item_scan(it, item, dst, i + 1, st1)

TreeModel_move_item(t, root, item, dst_parent_item, pos) ==
    LET dst == IF dst_parent_item = None THEN root ELSE dst_parent_item
        st == TreeModel_move_item_scan(
                  TreeModel_all_indices(t, root), item, dst, 1,
                  [item_index |-> InvalidIndex, have_item |-> FALSE,
                   dst_parent_index |-> InvalidIndex, have_dst |-> FALSE,
                   index |-> InvalidIndex, err |-> None])
    IN  IF st.err # None THEN TOutcome(t, st.err, <<>>)
        ELSE LET apos == _get_abs_pos(pos, TreeItem_child_count(t, dst))
                 p == TreeModel_parent(t, root, st.index)
             IN  IF p.err # None THEN TOutcome(t, p.err, <<>>)
                 ELSE Dropped(TreeModel_moveRow(t, root, st.item_index.row,
                                                apos, p.idx,
                                                st.dst_parent_index))


TreeModel_clear(t, fresh) ==
    TOutcome(t, "None", <<BeginResetModel, EndResetModel>>)
        @@ [root_item |-> fresh]

(***************************************************************************)
(* The state machine.                                                      *)
(***************************************************************************)
Stores == {"list", "table", "tree", "helper"}

PosRange(n) == (-(n + 2))..(n + 1)

\* Batches: lists of at most MaxBatch distinct items (insert_items), and
\* sets of at most MaxBatch distinct items (delete_items, move_items, which
\* sort them by position).
RECURSIVE SeqsUpTo(_, _)
SeqsUpTo(S, n) ==
    IF n = 0 THEN {<<>>}
    ELSE LET shorter == SeqsUpTo(S, n - 1)
         IN  shorter \cup {Append(q, x) : q \in shorter, x \in S}

Batches(S) ==
    {q \in SeqsUpTo(S, MaxBatch) :
        \A i, j \in 1..Len(q) : q[i] = q[j] => i = j}

BatchSets(S) == {B \in SUBSET S : Cardinality(B) <= MaxBatch}

\* The batches the callers hand over, by store.
ItemBatches == Batches(Items)
ItemBatchSets == BatchSets(Items)
TableBatches == Batches(TableItems) \ {<<>>}
SomeTreeBatches == Batches(SomeTreeItems) \ {<<>>}
TreeBatches == Batches(TreeItems) \ {<<>>}

Init ==
    /\ store \in Stores
    /\ list_items = <<>>
    /\ table_items = <<>>
    /\ COL_COUNT \in (IF store = "table" THEN 1..MaxCols ELSE {1})
    /\ strict_emit \in (IF store = "table" THEN BOOLEAN ELSE {FALSE})
    /\ root_item = RootNames[1]
    /\ children = [n \in TreeNodes |-> <<>>]
    /\ parent = [n \in TreeNodes |-> None]
    /\ result = "None"
    /\ notes = <<>>
    /\ yielded = <<>>
    /\ iter_recursive = FALSE
    /\ handle = InvalidHandle
    /\ last = "__init__"
    /\ abs_pos = 0 /\ abs_len = 0 /\ abs_out = 0

(* ListModel *)
ListStep(op, o) ==
    /\ store = "list"
    /\ Len(o.items) <= MaxLen
    /\ list_items' = o.items
    /\ result' = o.result
    /\ notes' = o.notes
    /\ last' = op
    /\ yielded' = <<>>
    /\ handle' = InvalidHandle
    /\ UNCHANGED <<store, tableVars, treeVars, iter_recursive, posVars>>

ListInsertItemCall(item, pos) ==
    ListStep("insert_item", ListModel_insert_item(list_items, item, pos))

ListInsertItem ==
    \E item \in Items, pos \in PosRange(Len(list_items)) :
        ListInsertItemCall(item, pos)

ListInsertItemsCall(new, pos) ==
    ListStep("insert_items", ListModel_insert_items(list_items, new, pos))

ListInsertItems ==
    \E new \in ItemBatches, pos \in PosRange(Len(list_items)) :
        ListInsertItemsCall(new, pos)

ListDeleteItemCall(item) ==
    ListStep("delete_item", ListModel_delete_item(list_items, item))

ListDeleteItem == \E item \in Items : ListDeleteItemCall(item)

ListDeleteItemsCall(S) ==
    ListStep("delete_items", ListModel_delete_items(list_items, S))

ListDeleteItems == \E S \in ItemBatchSets : ListDeleteItemsCall(S)

ListMoveItemCall(item, pos) ==
    ListStep("move_item", ListModel_move_item(list_items, item, pos))

ListMoveItem ==
    \E item \in Items, pos \in PosRange(Len(list_items)) :
        ListMoveItemCall(item, pos)

ListMoveItemsCall(S, pos) ==
    ListStep("move_items", ListModel_move_items(list_items, S, pos))

ListMoveItems ==
    \E S \in ItemBatchSets, pos \in PosRange(Len(list_items)) :
        ListMoveItemsCall(S, pos)

ListClear == ListStep("clear", ListModel_clear(list_items))

\* removeRow called the way a view calls it, with a parent index.
ListRemoveRowCall(row) ==
    ListStep("removeRow", ListModel_removeRow(list_items, row, InvalidIndex))

ListRemoveRow == \E row \in 0..Len(list_items) : ListRemoveRowCall(row)

\* A lookup: the store is left alone, result is the type of what the call
\* returned, or the exception it raised.
ListLookup(op, r) ==
    /\ store = "list"
    /\ handle' = r.handle
    /\ result' = IF r.err # None THEN r.err ELSE "QModelIndex"
    /\ notes' = <<>>
    /\ yielded' = <<>>
    /\ last' = op
    /\ UNCHANGED <<store, listVars, tableVars, treeVars, iter_recursive,
                   posVars>>

ListIndexCall(row) == ListLookup("index", ListModel_index(list_items, row, 0))

ListIndex == \E row \in (-1)..(Len(list_items) + 1) : ListIndexCall(row)

ListNext ==
    \/ ListIndex
    \/ ListInsertItem
    \/ ListInsertItems
    \/ ListDeleteItem
    \/ ListDeleteItems
    \/ ListMoveItem
    \/ ListMoveItems
    \/ ListClear
    \/ ListRemoveRow

(* TableModel *)
TableStep(op, o) ==
    /\ store = "table"
    /\ Len(o.items) <= MaxTableLen
    /\ table_items' = o.items
    /\ result' = o.result
    /\ notes' = o.notes
    /\ last' = op
    /\ yielded' = <<>>
    /\ handle' = InvalidHandle
    /\ UNCHANGED <<store, list_items, COL_COUNT, strict_emit, treeVars,
                   iter_recursive, posVars>>

TableRows == TableModel_rowCount(table_items, COL_COUNT)

TableInsertItemCall(item, pos) ==
    TableStep("insert_item",
              TableModel_insert_item(table_items, COL_COUNT, item, pos,
                                     strict_emit))

TableInsertItem ==
    \E item \in TableItems, pos \in PosRange(TableRows) :
        TableInsertItemCall(item, pos)

TableInsertItemsCall(new, pos) ==
    TableStep("insert_items",
              TableModel_insert_items(table_items, COL_COUNT, new, pos,
                                      strict_emit))

TableInsertItems ==
    \E new \in TableBatches, pos \in PosRange(TableRows) :
        TableInsertItemsCall(new, pos)

\* insertRow called directly, with or without an item.
TableInsertRowCall(row, item) ==
    TableStep("insertRow",
              TableModel_insertRow(table_items, COL_COUNT, row, item))

TableInsertRow ==
    \E item \in TableItems \cup {None}, row \in (-1)..(TableRows + 1) :
        TableInsertRowCall(row, item)

TableRemoveRowCall(row) ==
    TableStep("removeRow", TableModel_removeRow(table_items, COL_COUNT, row))

TableRemoveRow == \E row \in (-1)..TableRows : TableRemoveRowCall(row)

TableRemoveRowsCall(row, count) ==
    TableStep("removeRows",
              TableModel_removeRows(table_items, COL_COUNT, row, count))

TableRemoveRows ==
    \E row \in 0..TableRows, count \in 1..MaxBatch :
        TableRemoveRowsCall(row, count)

TableClear == TableStep("clear", TableModel_clear(table_items))

\* A lookup or an iteration: the store is left alone.
TableLookup(op, res, h, seq) ==
    /\ store = "table"
    /\ handle' = h
    /\ yielded' = seq
    /\ result' = res
    /\ notes' = <<>>
    /\ last' = op
    /\ UNCHANGED <<store, listVars, tableVars, treeVars, iter_recursive,
                   posVars>>

TableIndexCall(row, column) ==
    TableLookup("index", "QModelIndex",
                TableModel_index(table_items, COL_COUNT, row, column), <<>>)

TableIndex ==
    \E row \in (-1)..TableRows, column \in (-1)..COL_COUNT :
        TableIndexCall(row, column)

\* list(model.iter_indices())
TableIterIndices ==
    TableLookup("iter_indices", "None", InvalidHandle,
                TableModel_iter_indices(table_items, COL_COUNT))

TableNext ==
    \/ TableIndex
    \/ TableIterIndices
    \/ TableInsertItem
    \/ TableInsertItems
    \/ TableInsertRow
    \/ TableRemoveRow
    \/ TableRemoveRows
    \/ TableClear

(* TreeModel *)
Tree == [children |-> children, parent |-> parent]

RECURSIVE SumLen(_, _)
SumLen(ch, S) ==
    IF S = {} THEN 0
    ELSE LET n == CHOOSE x \in S : TRUE
         IN  Len(ch[n]) + SumLen(ch, S \ {n})

\* How many places the children lists hold in all.
TreeEntries(ch) == SumLen(ch, TreeNodes)

ChildCountOf(parent_item) ==
    Len(children[IF parent_item = None THEN root_item ELSE parent_item])

TreeStep(op, o) ==
    /\ store = "tree"
    /\ TreeEntries(o.children) <= MaxLen
    /\ children' = o.children
    /\ parent' = o.parent
    /\ result' = o.result
    /\ notes' = o.notes
    /\ last' = op
    /\ yielded' = <<>>
    /\ iter_recursive' = FALSE
    /\ handle' = InvalidHandle
    /\ UNCHANGED <<store, listVars, tableVars, posVars>>

TreeInsertItemCall(item, parent_item, pos) ==
    /\ TreeStep("insert_item",
                TreeModel_insert_item(Tree, root_item, item, parent_item,
                                      pos))
    /\ UNCHANGED root_item

TreeInsertItem ==
    \E item \in SomeTreeItems, parent_item \in SomeTreeItems \cup {None} :
        \E pos \in PosRange(ChildCountOf(parent_item)) :
            TreeInsertItemCall(item, parent_item, pos)

TreeInsertItemsCall(new, parent_item, pos) ==
    /\ TreeStep("insert_items",
                TreeModel_insert_items(Tree, root_item, new, parent_item,
                                       pos))
    /\ UNCHANGED root_item

TreeInsertItems ==
    \E new \in SomeTreeBatches,
       parent_item \in SomeTreeItems \cup {None} :
        \E pos \in PosRange(ChildCountOf(parent_item)) :
            TreeInsertItemsCall(new, parent_item, pos)

TreeDeleteItemCall(item) ==
    /\ TreeStep("delete_item", TreeModel_delete_item(Tree, root_item, item))
    /\ UNCHANGED root_item

TreeDeleteItem == \E item \in SomeTreeItems : TreeDeleteItemCall(item)

TreeMoveItemCall(item, dst_parent_item, pos) ==
    /\ TreeStep("move_item",
                TreeModel_move_item(Tree, root_item, item, dst_parent_item,
                                    pos))
    /\ UNCHANGED root_item

TreeMoveItem ==
    \E item \in SomeTreeItems, dst_parent_item \in SomeTreeItems \cup {None} :
        \E pos \in PosRange(ChildCountOf(dst_parent_item)) :
            TreeMoveItemCall(item, dst_parent_item, pos)

\* clear() makes a new TreeItem("root"): the next unused root object.
TreeClear ==
    \E i \in 1..MaxClears :
        /\ root_item = RootNames[i]
        /\ LET o == TreeModel_clear(Tree, RootNames[i + 1])
           IN  /\ TreeStep("clear", o)
               /\ root_item' = o.root_item

TreeNext ==
    \/ TreeInsertItem
    \/ TreeInsertItems
    \/ TreeDeleteItem
    \/ TreeMoveItem
    \/ TreeClear

(* A TreeModel that is only handed fresh TreeItems, and iterated *)
\* A TreeItem as its constructor leaves it, and that was not handed out.
Fresh(item) ==
    /\ parent[item] = None
    /\ children[item] = <<>>
    /\ \A n \in TreeNodes : ~PyIn(children[n], item)

TreeInsertFreshItem ==
    \E item \in TreeItems, parent_item \in TreeItems \cup {None} :
        \E pos \in PosRange(ChildCountOf(parent_item)) :
            /\ Fresh(item)
            /\ TreeInsertItemCall(item, parent_item, pos)

TreeInsertFreshItems ==
    \E new \in TreeBatches,
       parent_item \in TreeItems \cup {None} :
        \E pos \in PosRange(ChildCountOf(parent_item)) :
            /\ \A i \in 1..Len(new) : Fresh(new[i])
            /\ TreeInsertItemsCall(new, parent_item, pos)

\* What a consumer of an iterator gets: the items, then the error if the
\* iterator raised one.
IterStep(op, flag, it, items) ==
    /\ store = "tree"
    /\ yielded' = items
    /\ iter_recursive' = flag
    /\ result' = IF it.overflow THEN "RecursionError" ELSE "None"
    /\ notes' = <<>>
    /\ last' = op
    /\ handle' = InvalidHandle
    /\ UNCHANGED <<store, listVars, tableVars, treeVars, posVars>>

\* list(model.iter_indices(recursive=flag)), by internalPointer.
TreeIterIndicesCall(flag) ==
    LET it == TreeModel_iter_indices(Tree, root_item, InvalidIndex, flag, 0,
                                     RecursionDepth)
    IN  IterStep("iter_indices", flag, it,
                 [i \in 1..Len(it.seq) |-> it.seq[i].ptr])

TreeIterIndices == \E flag \in BOOLEAN : TreeIterIndicesCall(flag)

\* list(model.root_item.iter_children(recursive=flag)).
TreeIterChildrenCall(flag) ==
    LET it == TreeItem_iter_children(Tree, root_item, flag, 1,
                                     RecursionDepth)
    IN  IterStep("iter_children", flag, it, it.seq)

TreeIterChildren == \E flag \in BOOLEAN : TreeIterChildrenCall(flag)

\* model.parent(index), index being the handle iteration yields for item
\* (QModelIndex() when item is None): the store is left alone.
TreeParentCall(item) ==
    LET index == IF item = None THEN InvalidIndex
                 ELSE TreeModel_find(Tree, root_item, item).idx
        r == TreeModel_parent(Tree, root_item, index)
    IN  /\ store = "tree"
        /\ handle' = IF isValid(r.idx) THEN createIndexAt(r.idx.row, 0, r.idx.ptr)
                      ELSE InvalidHandle
        /\ result' = IF r.err # None THEN r.err ELSE "QModelIndex"
        /\ notes' = <<>>
        /\ yielded' = <<>>
        /\ iter_recursive' = FALSE
        /\ last' = "parent"
        /\ UNCHANGED <<store, listVars, tableVars, treeVars, posVars>>

TreeParent ==
    \E item \in TreeItems \cup {None} :
        /\ item # None => TreeModel_find(Tree, root_item, item).found
        /\ TreeParentCall(item)

\* n.insert_child(c, pos) called on an item of the tree, or on root_item,
\* with a fresh item; pos = -1 is the default of the method.
TreeItemInsertChildCall(n, c, pos) ==
    LET r == TreeItem_insert_child(Tree, n, c, pos)
    IN  /\ TreeStep("insert_child",
                    TOutcome(r.t, IF r.err # None THEN r.err ELSE "None",
                             <<>>))
        /\ UNCHANGED root_item

TreeItemInsertChild ==
    \E n \in TreeItems \cup {root_item}, c \in TreeItems :
        \E pos \in PosRange(Len(children[n])) :
            /\ n = root_item \/ TreeModel_find(Tree, root_item, n).found
            /\ Fresh(c)
            /\ TreeItemInsertChildCall(n, c, pos)

TreeBuildNext ==
    \/ TreeParent
    \/ TreeItemInsertChild
    \/ TreeInsertFreshItem
    \/ TreeInsertFreshItems
    \/ TreeIterIndices
    \/ TreeIterChildren

(* _get_abs_pos *)
GetAbsPos ==
    \E pos \in (-MaxPos)..MaxPos, len_ \in 0..MaxPos :
        /\ store = "helper"
        /\ abs_pos' = pos
        /\ abs_len' = len_
        /\ abs_out' = _get_abs_pos(pos, len_)
        /\ last' = "_get_abs_pos"
        /\ UNCHANGED <<store, listVars, tableVars, treeVars, result, notes,
                       iterVars>>

HelperNext == GetAbsPos

Next == ListNext \/ TableNext \/ TreeNext \/ TreeBuildNext \/ HelperNext

Spec == Init /\ [][Next]_vars

InitList == Init /\ store = "list"
InitTable == Init /\ store = "table"
InitTree == Init /\ store = "tree"
InitHelper == Init /\ store = "helper"

SpecList == InitList /\ [][ListNext]_vars
SpecTable == InitTable /\ [][TableNext]_vars
SpecTree == InitTree /\ [][TreeNext]_vars
SpecTreeBuild == InitTree /\ [][TreeBuildNext]_vars
SpecHelper == InitHelper /\ [][HelperNext]_vars

(***************************************************************************)
(* Properties of the stores.                                               *)
(***************************************************************************)

\* The items reachable from the items of S along children lists, S included
\* (k steps are enough for k >= the number of tree items).
RECURSIVE ReachableFrom(_, _, _)
ReachableFrom(ch, S, k) ==
    IF k = 0 THEN S
    ELSE ReachableFrom(
             ch,
             S \cup UNION {{ch[n][i] : i \in 1..Len(ch[n])} : n \in S},
             k - 1)

Descendants(ch, n) ==
    ReachableFrom(ch, {ch[n][i] : i \in 1..Len(ch[n])},
                  Cardinality(TreeNodes))

\* C1: starting from an empty ListModel, insert_item(A, -1), insert_item(B,
\* -1) and insert_item(C, -1) give the sequence [A, B, C], and a following
\* move_item(A, -1) gives the sequence [B, C, A].
C1_ListScenario ==
    [][/\ (list_items = <<>> /\ ListInsertItemCall("A", -1))
            => list_items' = <<"A">>
       /\ (list_items = <<"A">> /\ ListInsertItemCall("B", -1))
            => list_items' = <<"A", "B">>
       /\ (list_items = <<"A", "B">> /\ ListInsertItemCall("C", -1))
            => list_items' = <<"A", "B", "C">>
       /\ (list_items = <<"A", "B", "C">> /\ ListMoveItemCall("A", -1))
            => list_items' = <<"B", "C", "A">>]_vars

\* C2: in a TableModel with COL_COUNT = 3 that holds N < 4 items, starting
\* empty, insert_item(item, -1) stores its item, and rowCount is 1, 1, 1, 2
\* after the first, second, third and fourth insert.
C2_TableScenario ==
    [][\A item \in TableItems :
          (/\ COL_COUNT = 3
           /\ Len(table_items) < 4
           /\ TableInsertItemCall(item, -1))
          => /\ Len(table_items') = Len(table_items) + 1
             /\ TableModel_rowCount(table_items', COL_COUNT)
                    = <<1, 1, 1, 2>>[Len(table_items) + 1]]_vars

\* C3: with X under the root R and Y under X, delete_item(X) completes, and
\* afterwards rowCount(R) = 0 and neither X nor Y is reachable from R.
C3_DeleteCascade ==
    [][(/\ root_item = "R"
        /\ children["R"] = <<"X">> /\ parent["X"] = "R"
        /\ children["X"] = <<"Y">> /\ parent["Y"] = "X"
        /\ children["Y"] = <<>>
        /\ TreeDeleteItemCall("X"))
       => /\ result' = "None"
          /\ TreeModel_rowCount(Tree', root_item', InvalidIndex) = 0
          /\ Descendants(children', root_item') \cap {"X", "Y"} = {}]_vars

\* C4: after every operation of a TreeModel, returned or raised, for all
\* tree items X and Y: X.parent is Y if and only if X occurs in Y.children.
C4_Ownership ==
    \A x, y \in TreeNodes : (parent[x] = y) <=> PyIn(children[y], x)

\* C5: a call that emits a begin-notification emits the matching
\* end-notification before it finishes, whether it returns or raises.
EndOf(ev) ==
    CASE ev = "insert-begin" -> "insert-end"
      [] ev = "remove-begin" -> "remove-end"
      [] ev = "move-begin" -> "move-end"
      [] ev = "reset-begin" -> "reset-end"
      [] OTHER -> None

C5_BracketCompleted ==
    \A i \in 1..Len(notes) :
        EndOf(notes[i].ev) # None
        => /\ i < Len(notes)
           /\ notes[i + 1].ev = EndOf(notes[i].ev)

C7_InsertDeleteRoundTrip ==
    [][\A node \in Items :
          (/\ last = "insert_item" /\ result = "True"
           /\ list_items[notes[1].first + 1] = node
           /\ ListDeleteItemCall(node))
          => list_items' = PyDelAt(list_items, notes[1].first)]_vars

\* C8: in a ListModel, move_items of two or more distinct members whose
\* moves are all accepted leaves the moved items in the relative order they
\* had before the call.
Occurrences(s, x) == Cardinality({i \in 1..Len(s) : s[i] = x})

C8_BatchMoveKeepsOrder ==
    [][\A S \in ItemBatchSets :
          \A pos \in PosRange(Len(list_items)) :
              (/\ Cardinality(S) >= 2
               /\ \A x \in S : Occurrences(list_items, x) = 1
               /\ ListMoveItemsCall(S, pos)
               /\ result' = "None"
               /\ Len(notes') = 2 * Cardinality(S))
              => \A x, y \in S :
                     PyIndex(list_items, x) < PyIndex(list_items, y)
                     => PyIndex(list_items', x) < PyIndex(list_items', y)]_vars

\* C9: in a TreeModel built by inserting fresh items, recursive iteration
\* from the root yields every item of the tree exactly once, every item
\* followed at once by its descendants, and siblings in their stored order;
\* non-recursive iteration yields the children of the root in stored order.
PreOrder(s) ==
    LET tree == Descendants(children, root_item)
        Pos(n) == CHOOSE i \in 1..Len(s) : s[i] = n
    IN  /\ Len(s) = Cardinality(tree)
        /\ \A n \in tree : Occurrences(s, n) = 1
        /\ \A i \in 1..Len(s) :
               LET below == Descendants(children, s[i])
                   k == Cardinality(below)
               IN  /\ i + k <= Len(s)
                   /\ {s[j] : j \in (i + 1)..(i + k)} = below
        /\ \A p \in tree \cup {root_item} :
               \A a, b \in 1..Len(children[p]) :
                   a < b => Pos(children[p][a]) < Pos(children[p][b])

C9_Iteration ==
    last \in {"iter_indices", "iter_children"}
    => /\ result = "None"
       /\ iter_recursive => PreOrder(yielded)
       /\ ~iter_recursive => yielded = children[root_item]

C9_Witness ==
    /\ last = "iter_indices" /\ iter_recursive
    /\ children[root_item] = <<"X", "Z">>
    /\ children["X"] = <<"Y">>
    /\ yielded = <<"X", "Y", "Z">>

\* C10: a TableModel with COL_COUNT = C that holds N items has
\* rowCount = ceil(N / C), the least r with r * C >= N; and insert_item
\* called when N % C # 0 leaves rowCount unchanged.
C10_RowCount ==
    /\ [](LET r == TableModel_rowCount(table_items, COL_COUNT)
          IN  /\ r * COL_COUNT >= Len(table_items)
              /\ (r - 1) * COL_COUNT < Len(table_items))
    /\ [][(Len(table_items) % COL_COUNT # 0 /\ last' = "insert_item")
          => TableModel_rowCount(table_items', COL_COUNT)
                 = TableModel_rowCount(table_items, COL_COUNT)]_vars

C10_Witness ==
    /\ last = "insert_item"
    /\ COL_COUNT = 3
    /\ Len(table_items) = 2
    /\ notes = <<DataChanged(1, 1)>>

\* C11: insert_items of a TableModel either stores every item of the batch
\* (the item count grows by the length of the batch) or stores none and
\* leaves the items unchanged; it never ends with part of the batch stored
\* (stated for the Qt binding that accepts the dataChanged.emit calls).
C11_BatchAllOrNothing ==
    [][\A new \in TableBatches :
          \A pos \in PosRange(TableRows) :
              (~strict_emit /\ TableInsertItemsCall(new, pos))
              => \/ Len(table_items') = Len(table_items) + Len(new)
                 \/ table_items' = table_items]_vars

\* C12: delete_item of an item that is not in the store ends with an error
\* and leaves the store unchanged, with no notification (TreeModel; an item
\* is in the store when it is reachable from root_item).
C12_DeleteNonMember ==
    [][\A item \in SomeTreeItems :
          (/\ item \notin Descendants(children, root_item)
           /\ TreeDeleteItemCall(item))
          => /\ result' \notin {"None", "True", "False"}
             /\ children' = children
             /\ parent' = parent
             /\ notes' = <<>>]_vars

\* C13: for a ListModel of length L, index(row) returns a valid handle to
\* the item at row for every row in [0, L), and an invalid handle, never an
\* error, for every row outside [0, L), row = L included.
C13_ListLookup ==
    [][\A row \in (-1)..(Len(list_items) + 1) :
          ListIndexCall(row)
          => /\ result' = "QModelIndex"
             /\ IF 0 <= row /\ row < Len(list_items)
                THEN isValid(handle') /\ handle'.ptr = list_items[row + 1]
                ELSE ~isValid(handle')]_vars

\* C14: after any sequence of TreeModel operations, returned or raised, no
\* tree item is in its own children list or in the children list of one of
\* its descendants.
C14_NoCycles ==
    \A n \in TreeNodes : n \notin Descendants(children, n)

\* The tree as correct use leaves it: every item of a children list has
\* that list's owner as parent and occurs once, and every item with a
\* parent is in its parent's children list.
TreeConsistent ==
    /\ \A n \in TreeNodes :
           \A i \in 1..Len(children[n]) :
               /\ parent[children[n][i]] = n
               /\ Occurrences(children[n], children[n][i]) = 1
    /\ \A x \in TreeNodes : parent[x] # None => PyIn(children[parent[x]], x)

InTree(n) == n \in Descendants(children, root_item)

\* C15: for an item N of the tree, an item D of the tree that is neither N
\* nor a descendant of N nor N's parent, and pos normalizing to p in
\* [0, D.child_count], move_item(N, D, pos) completes, and afterwards N is
\* D.children[p], N.parent is D and N is no longer among the children of
\* its previous parent.
C15_Reparenting ==
    [][\A N, D \in SomeTreeItems :
          \A pos \in PosRange(Len(children[D])) :
              LET p == IF pos >= 0 THEN pos ELSE Len(children[D]) + pos + 1
              IN  (/\ TreeConsistent
                   /\ InTree(N) /\ InTree(D)
                   /\ D # N /\ D \notin Descendants(children, N)
                   /\ parent[N] # D
                   /\ 0 <= p /\ p <= Len(children[D])
                   /\ TreeMoveItemCall(N, D, pos))
                  => /\ result' = "None"
                     /\ Len(children'[D]) > p
                     /\ children'[D][p + 1] = N
                     /\ parent'[N] = D
                     /\ ~PyIn(children'[parent[N]], N)]_vars

\* C16: for an item N of the tree, move_item(N) with dst_parent_item left
\* out and pos = -1 completes without error and makes N the last child of
\* root_item.
C16_MoveToRoot ==
    [][\A N \in SomeTreeItems :
          (/\ TreeConsistent
           /\ InTree(N)
           /\ TreeMoveItemCall(N, None, -1))
          => /\ result' = "None"
             /\ children'[root_item] # <<>>
             /\ children'[root_item][Len(children'[root_item])] = N]_vars

\* C17: after clear() root_item is a new item without children, and every
\* item that was a child of the previous root has no parent, so that
\* insert_item of it completes like that of a fresh item.
C17_ClearReleases ==
    /\ [](last = "clear"
          => /\ children[root_item] = <<>>
             /\ parent[root_item] = None
             /\ \A r \in Roots \ {root_item} :
                    \A i \in 1..Len(children[r]) :
                        parent[children[r][i]] = None)
    /\ [][\A r \in Roots \ {root_item} :
             \A i \in 1..Len(children[r]) :
                 (/\ last = "clear"
                  /\ TreeInsertItemCall(children[r][i], None, -1))
                 => /\ result' = "None"
                    /\ children'[root_item] = <<children[r][i]>>
                    /\ parent'[children[r][i]] = root_item]_vars

\* C18: for a ListModel of length L, insert_item(item, pos) with pos
\* normalizing to p in [0, L] returns True, puts item at position p with
\* the other items in their order, and emits exactly insert-begin(p, p) and
\* insert-end; with p outside [0, L] it returns False, emits nothing and
\* leaves the items unchanged.
C18_ListInsert ==
    [][last' = "insert_item" =>
       \A item \in Items :
          \A pos \in PosRange(Len(list_items)) :
              LET L == Len(list_items)
                  p == IF pos >= 0 THEN pos ELSE L + pos + 1
              IN  ListInsertItemCall(item, pos)
                  => IF 0 <= p /\ p <= L
                     THEN /\ result' = "True"
                          /\ list_items' = SubSeq(list_items, 1, p)
                                           \o <<item>>
                                           \o SubSeq(list_items, p + 1, L)
                          /\ Len(notes') = 2
                          /\ notes'[1].ev = "insert-begin"
                          /\ notes'[1].first = p /\ notes'[1].last = p
                          /\ notes'[2].ev = "insert-end"
                     ELSE /\ result' = "False"
                          /\ notes' = <<>>
                          /\ list_items' = list_items]_vars

C18_Witness ==
    /\ last = "insert_item" /\ result = "True"
    /\ list_items = <<"A", "C", "B">>
    /\ notes[1].first = 1

\* C19: for a ListModel of length L, an item stored once, at position s,
\* and every d in [0, L), move_item(item, d) returns True, and afterwards
\* item is at position d with the other items in their previous order.
C19_ListMove ==
    [][last' = "move_item" =>
       \A item \in Items :
          \A d \in 0..(Len(list_items) - 1) :
              (/\ Occurrences(list_items, item) = 1
               /\ ListMoveItemCall(item, d))
              => LET rest == PyDelAt(list_items, PyIndex(list_items, item))
                 IN  /\ result' = "True"
                     /\ list_items' = SubSeq(rest, 1, d) \o <<item>>
                                      \o SubSeq(rest, d + 1, Len(rest))]_vars

\* C20: for a TableModel with COL_COUNT = C that holds N items, index(p \div
\* C, p % C) is, for every p in [0, N), a valid handle to the item at
\* position p; and iter_indices yields exactly one handle per stored item.
C20_TableAddressing ==
    [][/\ last' = "index" =>
          \A p \in 0..(Len(table_items) - 1) :
              TableIndexCall(p \div COL_COUNT, p % COL_COUNT)
              => /\ isValid(handle')
                 /\ handle'.ptr = table_items[p + 1]
       /\ last' = "iter_indices" =>
              /\ Len(yielded') = Len(table_items)
              /\ \A p \in 1..Len(table_items) :
                     yielded'[p].ptr = table_items[p]]_vars

\* C21: for a TableModel with COL_COUNT = C that holds N items, removing a
\* row r in [0, rowCount), by removeRow(r) or by removeRows(r, 1), returns
\* True and deletes exactly the items at positions [r * C, min(r * C + C,
\* N)), the other items staying in their order.
C21_TableRowRemoval ==
    [][last' \in {"removeRow", "removeRows"} =>
       \A r \in 0..(TableRows - 1) :
          (TableRemoveRowCall(r) \/ TableRemoveRowsCall(r, 1))
          => LET N == Len(table_items)
                 lo == r * COL_COUNT
                 hi == Min(lo + COL_COUNT, N)
             IN  /\ result' = "True"
                 /\ table_items' = SubSeq(table_items, 1, lo)
                                   \o SubSeq(table_items, hi + 1, N)]_vars

\* C22: insert_item of a TableModel emits an insert-begin / insert-end
\* bracket if and only if the call increases rowCount; and when the last
\* row is partially filled (item count modulo COL_COUNT is not 0) the item
\* is stored without a bracket (stated for the Qt binding that accepts the
\* dataChanged.emit call).
C22_TwoTierInsert ==
    [][(last' = "insert_item" /\ ~strict_emit) =>
       LET grew == TableModel_rowCount(table_items', COL_COUNT)
                       > TableModel_rowCount(table_items, COL_COUNT)
           bracket == \E i \in 1..Len(notes') : notes'[i].ev = "insert-begin"
       IN  /\ bracket <=> grew
           /\ Len(table_items) % COL_COUNT # 0
                  => /\ Len(table_items') = Len(table_items) + 1
                     /\ ~bracket]_vars

\* The index a view holds for an item of the tree: the invalid index for
\* root_item, else the item with its row among its siblings.
IndexOf(n) ==
    IF n = root_item THEN InvalidIndex
    ELSE createIndex(PyIndex(children[parent[n]], n), n)

\* C23: for a fresh item, a parent P of the tree (root_item when left out)
\* and pos normalizing to p in [0, P.child_count], insert_item(item, P, pos)
\* completes, makes item P.children[p] with item.parent = P, keeps the other
\* children of P in their order, changes no other children list, and emits
\* exactly insert-begin(P, p, p) and insert-end.
C23_TreeInsert ==
    [][last' = "insert_item" =>
       \A item \in TreeItems, P \in TreeItems \cup {None} :
          \A pos \in PosRange(ChildCountOf(P)) :
              LET Pn == IF P = None THEN root_item ELSE P
                  n == Len(children[Pn])
                  p == IF pos >= 0 THEN pos ELSE n + pos + 1
              IN  (/\ Fresh(item)
                   /\ (P = None \/ InTree(P))
                   /\ 0 <= p /\ p <= n
                   /\ TreeInsertItemCall(item, P, pos))
                  => /\ result' = "None"
                     /\ children'[Pn] = SubSeq(children[Pn], 1, p)
                                        \o <<item>>
                                        \o SubSeq(children[Pn], p + 1, n)
                     /\ parent'[item] = Pn
                     /\ \A m \in TreeNodes \ {Pn} : children'[m] = children[m]
                     /\ notes' = <<BeginInsertRows(IndexOf(Pn), p, p),
                                   EndInsertRows>>]_vars

C23_Witness ==
    /\ last = "insert_item" /\ result = "None"
    /\ children[root_item] = <<"X">>
    /\ children["X"] = <<"Z", "Y">>
    /\ parent["Z"] = "X"
    /\ notes = <<BeginInsertRows(createIndex(0, "X"), 0, 0), EndInsertRows>>

\* C24: for a parent P of the tree (root_item when left out), a non-empty
\* list of fresh items and pos normalizing to p in [0, P.child_count] (the
\* default pos = -1 and a P without children included), insert_items(new,
\* P, pos) puts the items at P.children[p .. p + len(new) - 1] in the given
\* order, each with parent P.
C24_TreeBatchInsert ==
    [][last' = "insert_items" =>
       \A new \in TreeBatches, P \in TreeItems \cup {None} :
          \A pos \in PosRange(ChildCountOf(P)) :
              LET Pn == IF P = None THEN root_item ELSE P
                  n == Len(children[Pn])
                  p == IF pos >= 0 THEN pos ELSE n + pos + 1
              IN  (/\ \A i \in 1..Len(new) : Fresh(new[i])
                   /\ (P = None \/ InTree(P))
                   /\ 0 <= p /\ p <= n
                   /\ TreeInsertItemsCall(new, P, pos))
                  => /\ children'[Pn] = SubSeq(children[Pn], 1, p) \o new
                                        \o SubSeq(children[Pn], p + 1, n)
                     /\ \A i \in 1..Len(new) : parent'[new[i]] = Pn]_vars

\* C25: for the handle of an item N of the tree, at any depth, parent(handle)
\* returns without error: the invalid handle when N.parent is root_item,
\* else a handle to N.parent whose row is the position of N.parent among
\* its siblings.
C25_ParentQuery ==
    [][last' = "parent" =>
       \A N \in TreeItems :
          (InTree(N) /\ TreeParentCall(N))
          => /\ result' = "QModelIndex"
             /\ IF parent[N] = root_item
                THEN ~isValid(handle')
                ELSE /\ isValid(handle')
                     /\ handle'.ptr = parent[N]
                     /\ handle'.row = IndexOf(parent[N]).row]_vars

\* C26: for a ListModel of length L, a list of items and pos normalizing to
\* p in [0, L], insert_items(new, pos) returns True, the length becomes
\* L + len(new), the items are at positions p .. p + len(new) - 1 in the
\* given order and the items stored before keep their order; with p outside
\* [0, L] it returns False and leaves the items unchanged.  Stated of what
\* the call ends with, in every state a ListModel reaches.
C26_ListBatchInsert ==
    \A new \in ItemBatches :
        \A pos \in PosRange(Len(list_items)) :
            LET L == Len(list_items)
                p == IF pos >= 0 THEN pos ELSE L + pos + 1
                o == ListModel_insert_items(list_items, new, pos)
            IN  IF 0 <= p /\ p <= L
                THEN /\ o.result = "True"
                     /\ Len(o.items) = L + Len(new)
                     /\ o.items = SubSeq(list_items, 1, p) \o new
                                  \o SubSeq(list_items, p + 1, L)
                ELSE /\ o.result = "False"
                     /\ o.items = list_items

C26_Witness ==
    /\ last = "insert_items" /\ result = "True"
    /\ list_items = <<"A", "B", "C">>
    /\ notes = <<BeginInsertRows(InvalidIndex, 1, 2), EndInsertRows>>

\* C27: for a ListModel and a batch of distinct items each stored in it,
\* delete_items(batch) emits one remove bracket per item, by strictly
\* descending position, and leaves the previous sequence without those
\* items, the other items in their previous order.
C27_ListBatchDelete ==
    [][last' = "delete_items" =>
       \A S \in ItemBatchSets :
          (/\ \A x \in S : Occurrences(list_items, x) = 1
           /\ ListDeleteItemsCall(S))
          => LET Keep(x) == x \notin S
             IN  /\ list_items' = SelectSeq(list_items, Keep)
                 /\ Len(notes') = 2 * Cardinality(S)
                 /\ \A i \in 1..Cardinality(S) :
                        /\ notes'[2 * i - 1].ev = "remove-begin"
                        /\ notes'[2 * i].ev = "remove-end"
                        /\ i > 1 => notes'[2 * i - 1].first
                                        < notes'[2 * i - 3].first]_vars

\* C28: insert_child(child) called with its default pos = -1 on a TreeItem
\* that has one or more children appends child after the last of them:
\* child is children[child_count - 1] of the new list.
C28_DefaultAppends ==
    [][last' = "insert_child" =>
       \A n \in TreeNodes, c \in TreeItems :
          (/\ Fresh(c)
           /\ children[n] # <<>>
           /\ TreeItemInsertChildCall(n, c, -1))
          => children'[n][Len(children'[n])] = c]_vars

=============================================================================
